---------------------------- MODULE Spec2Model ----------------------------
(***************************************************************************)
(* A model of 1password_audit.py: the access audit that lists the vaults   *)
(* and groups of a 1Password account, caches every group's members,        *)
(* resolves each vault's direct and group-derived access into report rows  *)
(* and writes them to a CSV file.                                          *)
(*                                                                         *)
(* Two specifications share the definitions of the resolver:               *)
(*   Spec         main(): the six stages, the concurrent membership        *)
(*                fetches and vault resolutions, the exits.                *)
(*   ResolveSpec  one call of process_vault, one loop iteration per step,  *)
(*                on inputs drawn from bounded sets.                       *)
(*                                                                         *)
(* Text that the program sorts or joins (permission names, access labels,  *)
(* group names) is a sequence of code points, so that sorted() and         *)
(* ", ".join() are computed as Python computes them.  Text that is only    *)
(* copied (user names, e-mails, vault names, identifiers) is a string.     *)
(***************************************************************************)
EXTENDS Integers, Sequences, FiniteSets, Bags, TLC

VARIABLES
    pc,                   \* main(): the statement it is at, or how it ended
    exit_code,            \* the process's exit status; -1 while it runs
    console,              \* the diagnostics printed so far, in order
    world,                \* what the authority holds: [vaults, groups]
    vaults,               \* main(): vaults
    relevant_groups,      \* main(): relevant_groups
    group_members_cache,  \* main(): group_members_cache
    gtasks,               \* stage 4: the fetch_group_members tasks
    vtasks,               \* stage 5: the process_vault tasks
    doneq,                \* as_completed(): finished tasks not yet awaited
    completed,            \* main(): completed
    report_data,          \* main(): report_data
    artifact,             \* the file 1password_access_report.csv
    calls,                \* bag of the commands run so far
    responses,            \* the answers given so far: <<command, kind>>
    faults,               \* how many of them were no well-formed list
    progress,             \* the progress lines print_progress has printed
    rv                    \* ResolveSpec: the frame of one process_vault call

vars == <<pc, exit_code, console, world, vaults, relevant_groups,
          group_members_cache, gtasks, vtasks, doneq, completed,
          report_data, artifact, calls, responses, faults, progress, rv>>

---------------------------------------------------------------------------
(* Bounds of the model.                                                    *)

MaxVaults == 2      \* vaults in the vault universe
MaxGroups == 2      \* groups in the group universe
MaxFaults == 2      \* answers of one run that are not a well-formed list
MaxDirect == 2      \* ResolveSpec: entries of a vault's user list
MaxGrants == 2      \* ResolveSpec: entries of a vault's group list
MaxMembers == 2     \* ResolveSpec: members of a cached group

---------------------------------------------------------------------------
(* Text as code points.                                                    *)

S_read == <<114, 101, 97, 100>>                         \* "read"
S_write == <<119, 114, 105, 116, 101>>                  \* "write"
S_manage == <<109, 97, 110, 97, 103, 101>>              \* "manage"
S_Direct == <<68, 105, 114, 101, 99, 116>>              \* "Direct"
S_GroupPrefix == <<71, 114, 111, 117, 112, 58, 32>>     \* "Group: "
S_CommaSpace == <<44, 32>>                              \* ", "
S_Admins == <<65, 100, 109, 105, 110, 115>>             \* "Admins"
S_Legacy == <<76, 101, 103, 97, 99, 121>>               \* "Legacy"
S_UnknownGroup ==                                       \* "Unknown Group"
    <<85, 110, 107, 110, 111, 119, 110, 32, 71, 114, 111, 117, 112>>

\* a < b for two Python str values: code point by code point, a proper
\* prefix first.
RECURSIVE StrLess(_, _)
StrLess(a, b) ==
    IF a = <<>> THEN b # <<>>
    ELSE IF b = <<>> THEN FALSE
    ELSE IF a[1] # b[1] THEN a[1] < b[1]
    ELSE StrLess(Tail(a), Tail(b))

\* The least string of a non-empty set.
MinStr(S) == CHOOSE a \in S : \A b \in S \ {a} : StrLess(a, b)

\* The greatest string of a non-empty set.
MaxStr(S) == CHOOSE a \in S : \A b \in S \ {a} : StrLess(b, a)

\* Mutant of Sorted: sorted(..., reverse=True).
RECURSIVE Sorted_Reversed(_)
Sorted_Reversed(S) ==
    IF S = {} THEN <<>>
    ELSE LET m == MaxStr(S) IN <<m>> \o Sorted_Reversed(S \ {m})

\* sorted(list(S)) for a set of strings.
RECURSIVE Sorted(_)
Sorted(S) ==
    IF S = {} THEN <<>>
    ELSE LET m == MinStr(S) IN <<m>> \o Sorted(S \ {m})

\* sep.join(parts).
RECURSIVE Join(_, _)
Join(sep, parts) ==
    IF parts = <<>> THEN <<>>
    ELSE IF Len(parts) = 1 THEN parts[1]
    ELSE parts[1] \o sep \o Join(sep, Tail(parts))

---------------------------------------------------------------------------
(* JSON values and dictionaries.                                           *)

\* A JSON object is a function from its keys; dict.get(key, default).
Get(obj, key, default) == IF key \in DOMAIN obj THEN obj[key] ELSE default

\* dict.get("id"): None when the key is missing.  None and "" are both
\* falsy and nothing else is done with them, so None is "".
None == ""
Falsy(id) == id = ""

\* What json.loads returns: a list, or a value that is no list (null, a
\* number): "for x in value" raises TypeError on the latter.
PyList(items) == [iterable |-> TRUE, items |-> items]
PyScalar == [iterable |-> FALSE, items |-> <<>>]

\* The completed `op` process: its return code and what its stdout parses to.
OkResponse(items) == [returncode |-> 0, parses |-> TRUE, value |-> PyList(items)]
ErrorResponse == [returncode |-> 1, parses |-> FALSE, value |-> PyList(<<>>)]
UnparsableResponse == [returncode |-> 0, parses |-> FALSE, value |-> PyList(<<>>)]
ScalarResponse == [returncode |-> 0, parses |-> TRUE, value |-> PyScalar]

Kinds == {"ok", "error", "unparsable", "scalar"}
Response(kind, items) ==
    CASE kind = "ok" -> OkResponse(items)
      [] kind = "error" -> ErrorResponse
      [] kind = "unparsable" -> UnparsableResponse
      [] kind = "scalar" -> ScalarResponse

---------------------------------------------------------------------------
(* The authority client.  Each function returns or leaves through          *)
(* sys.exit(1).                                                            *)

Returned(v) == [exits |-> FALSE, value |-> v]
Exited == [exits |-> TRUE, value |-> PyList(<<>>)]

\* result.check_returncode() raises CalledProcessError, json.loads raises
\* JSONDecodeError.
Raises(resp) == resp.returncode # 0 \/ ~resp.parses

get_vaults(resp) == IF Raises(resp) THEN Exited ELSE Returned(resp.value)

\* Mutant of get_all_groups: the failure degrades to an empty list, as in
\* the per-resource calls.
get_all_groups_Degrades(resp) ==
    IF Raises(resp) THEN Returned(PyList(<<>>)) ELSE Returned(resp.value)

get_all_groups(resp) == IF Raises(resp) THEN Exited ELSE Returned(resp.value)

\* Mutant of get_vault_users: the except branch returns nothing (None).
get_vault_users_ReturnsNone(resp) ==
    IF Raises(resp) THEN Returned(PyScalar) ELSE Returned(resp.value)

get_vault_users(resp) ==
    IF Raises(resp) THEN Returned(PyList(<<>>)) ELSE Returned(resp.value)

get_vault_groups(resp) ==
    IF Raises(resp) THEN Returned(PyList(<<>>)) ELSE Returned(resp.value)

get_group_members(resp) ==
    IF Raises(resp) THEN Returned(PyList(<<>>)) ELSE Returned(resp.value)

---------------------------------------------------------------------------
(* process_vault: the accumulator vault_access is a dict, which keeps its  *)
(* keys in insertion order: a sequence of records, the key in field id.    *)

HasKey(va, user_id) == \E k \in 1..Len(va) : va[k].id = user_id
KeyIndex(va, user_id) == CHOOSE k \in 1..Len(va) : va[k].id = user_id

\* "Group: <group_name>"
GroupLabel(group_name) == S_GroupPrefix \o group_name

\* Mutant of DirectStep: the "if not user_id: continue" is missing.
DirectStep_NoIdCheck(va, user) ==
    LET user_id == Get(user, "id", None) IN
    IF ~HasKey(va, user_id)
    THEN Append(va, [id |-> user_id,
                     name |-> Get(user, "name", "Unknown User"),
                     email |-> Get(user, "email", "No Email"),
                     permissions |-> Get(user, "permissions", {}),
                     access_via |-> {S_Direct}])
    ELSE LET k == KeyIndex(va, user_id) IN
         [va EXCEPT ![k].access_via = @ \cup {S_Direct},
                    ![k].permissions = @ \cup Get(user, "permissions", {})]

\* Mutant of DirectStep: a known user's permissions are not updated.
DirectStep_NoUpdate(va, user) ==
    LET user_id == Get(user, "id", None) IN
    IF Falsy(user_id) THEN va
    ELSE IF ~HasKey(va, user_id)
    THEN Append(va, [id |-> user_id,
                     name |-> Get(user, "name", "Unknown User"),
                     email |-> Get(user, "email", "No Email"),
                     permissions |-> Get(user, "permissions", {}),
                     access_via |-> {S_Direct}])
    ELSE LET k == KeyIndex(va, user_id) IN
         [va EXCEPT ![k].access_via = @ \cup {S_Direct}]

\* One iteration of "for user in direct_users".
DirectStep(va, user) ==
    LET user_id == Get(user, "id", None) IN
    IF Falsy(user_id) THEN va
    ELSE IF ~HasKey(va, user_id)
    THEN Append(va, [id |-> user_id,
                     name |-> Get(user, "name", "Unknown User"),
                     email |-> Get(user, "email", "No Email"),
                     permissions |-> Get(user, "permissions", {}),
                     access_via |-> {S_Direct}])
    ELSE LET k == KeyIndex(va, user_id) IN
         [va EXCEPT ![k].access_via = @ \cup {S_Direct},
                    ![k].permissions = @ \cup Get(user, "permissions", {})]

\* Mutant of MemberStep: the permissions of a known user are replaced by
\* the group's instead of updated with them.
MemberStep_Overwrite(va, member, group_name, group_permissions) ==
    LET user_id == Get(member, "id", None) IN
    IF Falsy(user_id) THEN va
    ELSE IF ~HasKey(va, user_id)
    THEN Append(va, [id |-> user_id,
                     name |-> Get(member, "name", "Unknown User"),
                     email |-> Get(member, "email", "No Email"),
                     permissions |-> group_permissions,
                     access_via |-> {GroupLabel(group_name)}])
    ELSE LET k == KeyIndex(va, user_id) IN
         [va EXCEPT ![k].access_via = @ \cup {GroupLabel(group_name)},
                    ![k].permissions = group_permissions]

\* One iteration of "for member in group_members".
MemberStep(va, member, group_name, group_permissions) ==
    LET user_id == Get(member, "id", None) IN
    IF Falsy(user_id) THEN va
    ELSE IF ~HasKey(va, user_id)
    THEN Append(va, [id |-> user_id,
                     name |-> Get(member, "name", "Unknown User"),
                     email |-> Get(member, "email", "No Email"),
                     permissions |-> group_permissions,
                     access_via |-> {GroupLabel(group_name)}])
    ELSE LET k == KeyIndex(va, user_id) IN
         [va EXCEPT ![k].access_via = @ \cup {GroupLabel(group_name)},
                    ![k].permissions = @ \cup group_permissions]

\* Mutant of CacheGet: group_members_cache[group_id], which has no default.
CacheGet_NoDefault(cache, group_id) ==
    IF group_id \in DOMAIN cache THEN cache[group_id] ELSE PyScalar

\* group_members_cache.get(group_id, [])
CacheGet(cache, group_id) ==
    IF group_id \in DOMAIN cache THEN cache[group_id] ELSE PyList(<<>>)

\* The row of one accumulated record.
ReportRow(user_data, vault_name) ==
    [UserName |-> user_data.name,
     UserEmail |-> user_data.email,
     VaultName |-> vault_name,
     Permissions |-> Join(S_CommaSpace, Sorted(user_data.permissions)),
     AccessVia |-> Join(S_CommaSpace, Sorted(user_data.access_via))]

\* "3. Flatten for Report": one row per value of vault_access, in order.
Flatten(va, vault_name) ==
    [k \in 1..Len(va) |-> ReportRow(va[k], vault_name)]

\* The loop over direct_users, whole.
RECURSIVE DirectLoop(_, _)
DirectLoop(va, users) ==
    IF users = <<>> THEN va
    ELSE DirectLoop(DirectStep(va, Head(users)), Tail(users))

\* The loop over the members of one group, whole.
RECURSIVE MemberLoop(_, _, _, _)
MemberLoop(va, members, group_name, group_permissions) ==
    IF members = <<>> THEN va
    ELSE MemberLoop(MemberStep(va, Head(members), group_name, group_permissions),
                    Tail(members), group_name, group_permissions)

\* The loop over groups, whole: the accumulator it ends with, or the
\* TypeError of iterating a cached value that is no list.
Running(va) == [raised |-> FALSE, vault_access |-> va]
Raised(va) == [raised |-> TRUE, vault_access |-> va]

RECURSIVE GroupLoop(_, _, _)
GroupLoop(va, groups, cache) ==
    IF groups = <<>> THEN Running(va)
    ELSE LET group == Head(groups)
             group_name == Get(group, "name", S_UnknownGroup)
             group_id == Get(group, "id", None)
             group_permissions == Get(group, "permissions", {})
             group_members == CacheGet(cache, group_id)
         IN  IF Falsy(group_id) THEN GroupLoop(va, Tail(groups), cache)
             ELSE IF ~group_members.iterable THEN Raised(va)
             ELSE GroupLoop(MemberLoop(va, group_members.items, group_name,
                                       group_permissions),
                            Tail(groups), cache)

---------------------------------------------------------------------------
(* The inputs of ResolveSpec.                                              *)

Min(P) == CHOOSE m \in P : \A n \in P : m <= n

\* The entries of s at the positions P, in order.
RECURSIVE Pick(_, _)
Pick(s, P) ==
    IF P = {} THEN <<>>
    ELSE LET m == Min(P) IN <<s[m]>> \o Pick(s, P \ {m})

\* The lists of at most n entries that keep the order of s.
SubLists(s, n) ==
    {Pick(s, P) : P \in {Q \in SUBSET (1..Len(s)) : Cardinality(Q) <= n}}

Eng == [id |-> "v1", name |-> "Eng-Secrets"]
Ops == [id |-> "v2", name |-> "Ops"]
NoIdVault == [name |-> "Orphan"]

AliceRW == [id |-> "u1", name |-> "Alice", email |-> "alice@x.com",
            permissions |-> {S_read, S_write}]
AliceM == [id |-> "u1", name |-> "Alice", email |-> "alice@x.com",
           permissions |-> {S_manage}]
BobBare == [id |-> "u2"]
NoIdUser == [name |-> "Ghost", email |-> "ghost@x.com",
             permissions |-> {S_write}]

AliceMember == [id |-> "u1", name |-> "Alice", email |-> "alice@x.com"]
BobMember == [id |-> "u2", name |-> "Bob", email |-> "bob@x.com"]
NoIdMember == [name |-> "Ghost", email |-> "ghost@x.com"]

AdminsGrant == [id |-> "g1", name |-> S_Admins,
                permissions |-> {S_read, S_write, S_manage}]
LegacyGrant == [id |-> "g2", name |-> S_Legacy, permissions |-> {S_read}]
NoIdGrant == [name |-> S_Legacy, permissions |-> {S_manage}]

\* A second group that is named "Admins".
TwinGrant == [id |-> "g3", name |-> S_Admins, permissions |-> {S_read}]

DirectMaster == <<AliceRW, NoIdUser, BobBare, AliceM>>
GrantMaster == <<AdminsGrant, NoIdGrant, LegacyGrant, AdminsGrant, TwinGrant>>
MemberMaster == <<AliceMember, NoIdMember, BobMember>>

\* The answers to one call whose well-formed answers are the lists of L.
Answers(L) ==
    {OkResponse(l) : l \in L}
        \cup {ErrorResponse, UnparsableResponse, ScalarResponse}

RvCacheValues ==
    {PyList(l) : l \in SubLists(MemberMaster, MaxMembers)} \cup {PyScalar}

\* The caches: any members for "g1" and "g2"; or "g3" with one member,
\* alone or next to "g1".
RvCaches ==
    UNION {[D -> RvCacheValues] : D \in SUBSET {"g1", "g2"}}
    \cup
    {[g \in DOMAIN c \cup {"g3"} |->
         IF g = "g3" THEN PyList(<<AliceMember>>) ELSE c[g]] :
        c \in UNION {[D -> RvCacheValues] : D \in SUBSET {"g1"}}}

Frame(vault, users_resp, groups_resp, cache) ==
    [pc |-> "start", vault |-> vault, users_resp |-> users_resp,
     groups_resp |-> groups_resp, cache |-> cache,
     direct_users |-> PyList(<<>>), groups |-> PyList(<<>>),
     group_members |-> PyList(<<>>), i |-> 0, j |-> 0,
     vault_access |-> <<>>, local_report |-> <<>>]

RvIdle == [Frame(NoIdVault, ErrorResponse, ErrorResponse, <<>>)
               EXCEPT !.pc = "idle"]

RvFrames ==
    {Frame(Eng, u, g, c) :
        u \in Answers(SubLists(DirectMaster, MaxDirect)),
        g \in Answers(SubLists(GrantMaster, MaxGrants)),
        c \in RvCaches}
    \cup
    {Frame(NoIdVault, u, g, <<>>) :
        u \in Answers(SubLists(DirectMaster, MaxDirect)),
        g \in Answers(SubLists(GrantMaster, MaxGrants))}

---------------------------------------------------------------------------
(* ResolveSpec: process_vault, statement by statement.                     *)

pipeline == <<pc, exit_code, console, world, vaults, relevant_groups,
              group_members_cache, gtasks, vtasks, doneq, completed,
              report_data, artifact, calls, responses, faults, progress>>

\* "if not vault_id: return []"
RvStart ==
    /\ rv.pc = "start"
    /\ rv' = IF Falsy(Get(rv.vault, "id", None))
             THEN [rv EXCEPT !.pc = "returned", !.local_report = <<>>]
             ELSE [rv EXCEPT !.pc = "await_users"]
    /\ UNCHANGED pipeline

\* direct_users = await get_vault_users(vault_id)
RvUsersReturn ==
    /\ rv.pc = "await_users"
    /\ rv' = [rv EXCEPT !.pc = "direct_loop", !.i = 1,
                        !.direct_users = get_vault_users(rv.users_resp).value]
    /\ UNCHANGED pipeline

\* for user in direct_users: ...
RvDirectIter ==
    /\ rv.pc = "direct_loop"
    /\ rv' = IF ~rv.direct_users.iterable
             THEN [rv EXCEPT !.pc = "raised"]
             ELSE IF rv.i <= Len(rv.direct_users.items)
             THEN [rv EXCEPT !.i = @ + 1,
                             !.vault_access =
                                 DirectStep(@, rv.direct_users.items[rv.i])]
             ELSE [rv EXCEPT !.pc = "await_groups"]
    /\ UNCHANGED pipeline

\* groups = await get_vault_groups(vault_id)
RvGroupsReturn ==
    /\ rv.pc = "await_groups"
    /\ rv' = [rv EXCEPT !.pc = "group_loop", !.i = 1,
                        !.groups = get_vault_groups(rv.groups_resp).value]
    /\ UNCHANGED pipeline

\* for group in groups: ... group_members = group_members_cache.get(...)
RvGroupIter ==
    /\ rv.pc = "group_loop"
    /\ rv' = IF ~rv.groups.iterable
             THEN [rv EXCEPT !.pc = "raised"]
             ELSE IF rv.i <= Len(rv.groups.items)
             THEN LET group_id == Get(rv.groups.items[rv.i], "id", None) IN
                  IF Falsy(group_id)
                  THEN [rv EXCEPT !.i = @ + 1]
                  ELSE [rv EXCEPT !.pc = "member_loop", !.j = 1,
                                  !.group_members = CacheGet(rv.cache, group_id)]
             ELSE [rv EXCEPT !.pc = "flatten"]
    /\ UNCHANGED pipeline

\* for member in group_members: ...
RvMemberIter ==
    /\ rv.pc = "member_loop"
    /\ rv' = IF ~rv.group_members.iterable
             THEN [rv EXCEPT !.pc = "raised"]
             ELSE IF rv.j <= Len(rv.group_members.items)
             THEN LET group == rv.groups.items[rv.i] IN
                  [rv EXCEPT !.j = @ + 1,
                             !.vault_access =
                                 MemberStep(@, rv.group_members.items[rv.j],
                                            Get(group, "name", S_UnknownGroup),
                                            Get(group, "permissions", {}))]
             ELSE [rv EXCEPT !.pc = "group_loop", !.i = @ + 1]
    /\ UNCHANGED pipeline

\* "3. Flatten for Report" and "return local_report"
RvFlatten ==
    /\ rv.pc = "flatten"
    /\ rv' = [rv EXCEPT !.pc = "returned",
                        !.local_report =
                            Flatten(rv.vault_access,
                                    Get(rv.vault, "name", "Unknown Vault"))]
    /\ UNCHANGED pipeline

---------------------------------------------------------------------------
(* The authority of Spec: the account's vaults and groups are drawn in     *)
(* Init, each vault's users and grants and each group's members are fixed. *)

AdminsGroup == [id |-> "g1", name |-> S_Admins]
LegacyGroup == [id |-> "g2", name |-> S_Legacy]
NoIdGroup == [name |-> S_Legacy]
TwinGroup == [id |-> "g3", name |-> S_Admins]

VaultMaster == <<Eng, NoIdVault, Ops>>
GroupMaster == <<AdminsGroup, NoIdGroup, LegacyGroup, TwinGroup>>

Worlds ==
    [vaults : SubLists(VaultMaster, MaxVaults),
     groups : SubLists(GroupMaster, MaxGroups)]

VaultUsersOf(vault_id) ==
    IF vault_id = "v1" THEN <<AliceRW>> ELSE <<AliceM, NoIdUser>>

VaultGroupsOf(vault_id) ==
    IF vault_id = "v1" THEN <<AdminsGrant>>
    ELSE <<LegacyGrant, NoIdGrant, AdminsGrant>>

\* The members of "g1" and "g2"; "g3" has none.
GroupMembersOf(group_id) ==
    IF group_id = "g1" THEN <<BobMember>>
    ELSE IF group_id = "g2" THEN <<AliceMember, NoIdMember>>
    ELSE <<>>

\* The commands: ["op", "vault", "list", ...] and so on, with the argument.
CmdWhoami == <<"whoami", "">>
CmdVaultList == <<"vault list", "">>
CmdGroupList == <<"group list", "">>
CmdVaultUsers(vault_id) == <<"vault user list", vault_id>>
CmdVaultGroups(vault_id) == <<"vault group list", vault_id>>
CmdGroupMembers(group_id) == <<"group user list", group_id>>

\* run_subprocess(cmd): one more process started.
Run(bag, cmd) == bag (+) SetToBag({cmd})

\* The kinds of answer a call can still get.
KindsLeft == IF faults < MaxFaults THEN Kinds ELSE {"ok"}
Fault(kind) == IF kind = "ok" THEN 0 ELSE 1

\* Mutant of RelevantGroups: all_groups, unfiltered.
RelevantGroups_Unfiltered(all_groups) ==
    [k \in 1..Len(all_groups) |->
        [id |-> Get(all_groups[k], "id", None)]]

\* relevant_groups = [g for g in all_groups if g.get("id")]
RECURSIVE RelevantGroups(_)
RelevantGroups(all_groups) ==
    IF all_groups = <<>> THEN <<>>
    ELSE IF ~Falsy(Get(Head(all_groups), "id", None))
    THEN <<Head(all_groups)>> \o RelevantGroups(Tail(all_groups))
    ELSE RelevantGroups(Tail(all_groups))

NoArtifact == [exists |-> FALSE, header |-> FALSE, rows |-> <<>>]

\* open(output_file, mode="w") has emptied the file and nothing was written.
Truncated == [exists |-> TRUE, header |-> FALSE, rows |-> <<>>]

Init ==
    /\ pc = "stage1"
    /\ exit_code = -1
    /\ console = <<>>
    /\ world \in Worlds
    /\ vaults = <<>>
    /\ relevant_groups = <<>>
    /\ group_members_cache = <<>>
    /\ gtasks = <<>>
    /\ vtasks = <<>>
    /\ doneq = <<>>
    /\ completed = 0
    /\ report_data = <<>>
    /\ artifact = NoArtifact
    /\ calls = EmptyBag
    /\ responses = {}
    /\ faults = 0
    /\ progress = <<>>
    /\ rv = RvIdle

\* sys.exit(1) after a diagnostic.
Exit(message) ==
    /\ pc' = "exited"
    /\ exit_code' = 1
    /\ console' = Append(console, message)

\* An exception nobody catches leaves main(): asyncio.run cancels the tasks
\* that have not finished and the interpreter ends with a traceback.
Cancel(tasks) ==
    [k \in 1..Len(tasks) |->
        IF tasks[k].state \in {"users", "groups", "pending"}
        THEN [tasks[k] EXCEPT !.state = "cancelled"]
        ELSE tasks[k]]

Crash ==
    /\ pc' = "crashed"
    /\ exit_code' = 1
    /\ console' = Append(console, "traceback")

\* Stage 1: check_op_installed() and check_op_signin(); then main() starts
\* the vault listing.
Stage1 ==
    /\ pc = "stage1"
    /\ \E installed \in BOOLEAN, signed_in \in BOOLEAN :
        IF ~installed
        THEN Exit("op_not_installed") /\ UNCHANGED calls
        ELSE IF ~signed_in
        THEN Exit("not_signed_in") /\ calls' = Run(calls, CmdWhoami)
        ELSE /\ pc' = "await_vaults"
             /\ calls' = Run(Run(calls, CmdWhoami), CmdVaultList)
             /\ UNCHANGED <<exit_code, console>>
    /\ UNCHANGED <<world, vaults, relevant_groups, group_members_cache,
                   gtasks, vtasks, doneq, completed, report_data, artifact,
                   responses, faults, progress, rv>>

\* Stage 2: vaults = await get_vaults(); len(vaults); then main() starts
\* the group listing.
Stage2 ==
    /\ pc = "await_vaults"
    /\ \E kind \in KindsLeft :
        LET r == get_vaults(Response(kind, world.vaults)) IN
        /\ responses' = responses \cup {<<CmdVaultList, kind>>}
        /\ faults' = faults + Fault(kind)
        /\ IF r.exits
           THEN Exit("error_fetching_vaults") /\ UNCHANGED <<vaults, calls>>
           ELSE IF ~r.value.iterable
           THEN Crash /\ UNCHANGED <<vaults, calls>>
           ELSE /\ vaults' = r.value.items
                /\ pc' = "await_groups"
                /\ calls' = Run(calls, CmdGroupList)
                /\ UNCHANGED <<exit_code, console>>
    /\ UNCHANGED <<world, relevant_groups, group_members_cache, gtasks,
                   vtasks, doneq, completed, report_data, artifact, progress, rv>>

\* Stage 3: all_groups = await get_all_groups(); relevant_groups.
Stage3 ==
    /\ pc = "await_groups"
    /\ \E kind \in KindsLeft :
        LET r == get_all_groups(Response(kind, world.groups)) IN
        /\ responses' = responses \cup {<<CmdGroupList, kind>>}
        /\ faults' = faults + Fault(kind)
        /\ IF r.exits
           THEN Exit("error_fetching_groups") /\ UNCHANGED relevant_groups
           ELSE IF ~r.value.iterable
           THEN Crash /\ UNCHANGED relevant_groups
           ELSE /\ relevant_groups' = RelevantGroups(r.value.items)
                /\ pc' = "stage4_start"
                /\ UNCHANGED <<exit_code, console>>
    /\ UNCHANGED <<world, vaults, group_members_cache, gtasks, vtasks, doneq,
                   completed, report_data, artifact, calls, progress, rv>>

\* Mutant of FetchTasks: every group is given two tasks.
FetchTasks_Twice(groups) ==
    [k \in 1..(2 * Len(groups)) |->
        [group_id |-> groups[(k + 1) \div 2].id, state |-> "pending",
         kind |-> "ok", members |-> PyList(<<>>)]]

\* tasks = [fetch_group_members(g["id"]) for g in relevant_groups]: every
\* task starts its `op group user list`.
FetchTasks(groups) ==
    [k \in 1..Len(groups) |->
        [group_id |-> groups[k].id, state |-> "pending", kind |-> "ok",
         members |-> PyList(<<>>)]]

RECURSIVE RunAll(_, _)
RunAll(bag, cmds) ==
    IF cmds = <<>> THEN bag ELSE RunAll(Run(bag, Head(cmds)), Tail(cmds))

\* Stage 4 begins: "if total_groups > 0" the fetches are dispatched.
Stage4Start ==
    /\ pc = "stage4_start"
    /\ IF Len(relevant_groups) > 0
       THEN /\ gtasks' = FetchTasks(relevant_groups)
            /\ calls' = RunAll(calls, [k \in 1..Len(gtasks') |->
                                          CmdGroupMembers(gtasks'[k].group_id)])
            /\ completed' = 0
            /\ pc' = "stage4"
       ELSE /\ pc' = "stage5_start"
            /\ UNCHANGED <<gtasks, calls, completed>>
    /\ UNCHANGED <<exit_code, console, world, vaults, relevant_groups,
                   group_members_cache, vtasks, doneq, report_data, artifact,
                   responses, faults, progress, rv>>

\* One fetch_group_members task finishes: get_group_members returned.
GroupFetchReturn(k) ==
    /\ pc = "stage4"
    /\ gtasks[k].state = "pending"
    /\ \E kind \in KindsLeft :
        LET group_id == gtasks[k].group_id
            r == get_group_members(Response(kind, GroupMembersOf(group_id)))
        IN  /\ gtasks' = [gtasks EXCEPT ![k].state = "done",
                                        ![k].kind = kind,
                                        ![k].members = r.value]
            /\ responses' = responses \cup {<<CmdGroupMembers(group_id), kind>>}
            /\ faults' = faults + Fault(kind)
    /\ doneq' = Append(doneq, k)
    /\ UNCHANGED <<pc, exit_code, console, world, vaults, relevant_groups,
                   group_members_cache, vtasks, completed, report_data,
                   artifact, calls, progress, rv>>

\* Mutant of CachePut: the cache is rebound to a dict of the one entry.
CachePut_Rebind(cache, group_id, members) ==
    [g \in {group_id} |-> members]

\* group_members_cache[group_id] = members
CachePut(cache, group_id, members) ==
    [g \in DOMAIN cache \cup {group_id} |->
        IF g = group_id THEN members ELSE cache[g]]

\* Mutant of LoopDone: the loop is left after its first iteration.
LoopDone_AfterFirst(n, tasks) == n >= 1

\* Mutant of LoopDone: the loop waits for one task more than there are.
LoopDone_OneMore(n, tasks) == n = Len(tasks) + 1

\* Mutant of LoopDone: the loop is left with one task still to be yielded.
LoopDone_BeforeLast(n, tasks) == n >= Len(tasks) - 1

\* "for coro in asyncio.as_completed(tasks)" has yielded every task.
LoopDone(n, tasks) == n = Len(tasks)

\* Mutant of print_progress: the line shows what is left, not what is done.
print_progress_Remaining(out, current, total, prefix) ==
    IF total = 0 THEN out
    ELSE Append(out, [prefix |-> prefix, current |-> total - current,
                      total |-> total,
                      filled_length |-> (20 * (total - current)) \div total,
                      newline |-> (total - current) = total])

\* print_progress(current, total, prefix, icon): nothing when total is 0,
\* else one line "|bar| current/total", ended when current is total.
print_progress(out, current, total, prefix) ==
    IF total = 0 THEN out
    ELSE Append(out, [prefix |-> prefix, current |-> current, total |-> total,
                      filled_length |-> (20 * current) \div total,
                      newline |-> current = total])

\* Stage 4, one iteration of the fan-in loop.
Stage4FanIn ==
    /\ pc = "stage4"
    /\ doneq # <<>>
    /\ LET k == Head(doneq) IN
        /\ group_members_cache' =
               CachePut(group_members_cache, gtasks[k].group_id, gtasks[k].members)
        /\ gtasks' = [gtasks EXCEPT ![k].state = "awaited"]
    /\ doneq' = Tail(doneq)
    /\ completed' = completed + 1
    /\ progress' = print_progress(progress, completed', Len(relevant_groups),
                                  "Loading")
    /\ pc' = IF LoopDone(completed', gtasks) THEN "stage5_start" ELSE "stage4"
    /\ UNCHANGED <<exit_code, console, world, vaults, relevant_groups, vtasks,
                   report_data, artifact, calls, responses, faults, rv>>

\* Mutant of VaultTasks: a vault without id is given no task.
VaultTasks_Filtered(vs) ==
    LET with_id == SelectSeq(vs, LAMBDA v : ~Falsy(Get(v, "id", None))) IN
    [k \in 1..Len(with_id) |->
        [vault |-> with_id[k], state |-> "users",
         users_kind |-> "ok", groups_kind |-> "ok",
         vault_access |-> <<>>, result |-> <<>>]]

\* tasks = [process_vault(vault, group_members_cache) for vault in vaults]:
\* a task whose vault has no id returns [] at once, every other task starts
\* its `op vault user list`.
VaultTasks(vs) ==
    [k \in 1..Len(vs) |->
        [vault |-> vs[k],
         state |-> IF Falsy(Get(vs[k], "id", None)) THEN "returned" ELSE "users",
         users_kind |-> "ok", groups_kind |-> "ok",
         vault_access |-> <<>>, result |-> <<>>]]

\* The task indices of P, a subset of 1..n, in ascending order.
Ascending(P, n) == Pick([k \in 1..n |-> k], P)

\* Stage 5 begins: "if total_vaults > 0" the resolutions are dispatched.
Stage5Start ==
    /\ pc = "stage5_start"
    /\ IF Len(vaults) > 0
       THEN LET tasks == VaultTasks(vaults)
                started == {k \in 1..Len(tasks) : tasks[k].state = "users"}
            IN  /\ vtasks' = tasks
                /\ doneq' = Ascending((1..Len(tasks)) \ started, Len(tasks))
                /\ calls' = RunAll(calls, [k \in 1..Cardinality(started) |->
                                CmdVaultUsers(tasks[Ascending(started, Len(tasks))[k]].vault.id)])
                /\ completed' = 0
                /\ pc' = "stage5"
       ELSE /\ pc' = "stage6"
            /\ UNCHANGED <<vtasks, doneq, calls, completed>>
    /\ UNCHANGED <<exit_code, console, world, vaults, relevant_groups,
                   group_members_cache, gtasks, report_data, artifact,
                   responses, faults, progress, rv>>

\* A process_vault task resumes with its direct users: the loop over them,
\* then it starts `op vault group list`.
VaultUsersReturn(k) ==
    /\ pc = "stage5"
    /\ vtasks[k].state = "users"
    /\ \E kind \in KindsLeft :
        LET vault_id == vtasks[k].vault.id
            r == get_vault_users(Response(kind, VaultUsersOf(vault_id)))
        IN  /\ responses' = responses \cup {<<CmdVaultUsers(vault_id), kind>>}
            /\ faults' = faults + Fault(kind)
            /\ IF ~r.value.iterable
               THEN /\ vtasks' = [vtasks EXCEPT ![k].state = "raised",
                                                ![k].users_kind = kind]
                    /\ doneq' = Append(doneq, k)
                    /\ UNCHANGED calls
               ELSE /\ vtasks' = [vtasks EXCEPT
                                     ![k].state = "groups",
                                     ![k].users_kind = kind,
                                     ![k].vault_access =
                                         DirectLoop(<<>>, r.value.items)]
                    /\ calls' = Run(calls, CmdVaultGroups(vault_id))
                    /\ UNCHANGED doneq
    /\ UNCHANGED <<pc, exit_code, console, world, vaults, relevant_groups,
                   group_members_cache, gtasks, completed, report_data,
                   artifact, progress, rv>>

\* A process_vault task resumes with its group grants: the loop over them,
\* reading the cache, then the rows; the task finishes.
VaultGroupsReturn(k) ==
    /\ pc = "stage5"
    /\ vtasks[k].state = "groups"
    /\ \E kind \in KindsLeft :
        LET vault == vtasks[k].vault
            r == get_vault_groups(Response(kind, VaultGroupsOf(vault.id)))
        IN  \E loop \in {IF r.value.iterable
                         THEN GroupLoop(vtasks[k].vault_access, r.value.items,
                                        group_members_cache)
                         ELSE Raised(vtasks[k].vault_access)} :
            /\ responses' = responses \cup {<<CmdVaultGroups(vault.id), kind>>}
            /\ faults' = faults + Fault(kind)
            /\ vtasks' =
                 IF loop.raised
                 THEN [vtasks EXCEPT ![k].state = "raised",
                                     ![k].groups_kind = kind]
                 ELSE [vtasks EXCEPT
                          ![k].state = "returned",
                          ![k].groups_kind = kind,
                          ![k].vault_access = loop.vault_access,
                          ![k].result =
                              Flatten(loop.vault_access,
                                      Get(vault, "name", "Unknown Vault"))]
    /\ doneq' = Append(doneq, k)
    /\ UNCHANGED <<pc, exit_code, console, world, vaults, relevant_groups,
                   group_members_cache, gtasks, completed, report_data,
                   artifact, calls, progress, rv>>

\* Mutant of Extend: a row of a user the report already holds is dropped.
Extend_Merged(report, result) ==
    report \o SelectSeq(result,
                        LAMBDA row : \A k \in 1..Len(report) :
                                        report[k].UserName # row.UserName)

\* report_data.extend(result)
Extend(report, result) == report \o result

\* Stage 5, one iteration of the fan-in loop: "result = await coro" raises
\* what the task raised.
Stage5FanIn ==
    /\ pc = "stage5"
    /\ doneq # <<>>
    /\ LET k == Head(doneq) IN
        IF vtasks[k].state = "raised"
        THEN /\ Crash
             /\ vtasks' = Cancel(vtasks)
             /\ doneq' = <<>>
             /\ UNCHANGED <<report_data, completed, progress>>
        ELSE /\ report_data' = Extend(report_data, vtasks[k].result)
             /\ vtasks' = [vtasks EXCEPT ![k].state = "awaited"]
             /\ doneq' = Tail(doneq)
             /\ completed' = completed + 1
             /\ progress' = print_progress(progress, completed', Len(vaults),
                                           "Auditing")
             /\ pc' = IF LoopDone(completed', vtasks) THEN "stage6" ELSE "stage5"
             /\ UNCHANGED <<exit_code, console>>
    /\ UNCHANGED <<world, vaults, relevant_groups, group_members_cache,
                   gtasks, artifact, calls, responses, faults, rv>>

\* Mutant of Written: writer.writeheader() is missing.
Written_NoHeader(rows, n) ==
    [exists |-> TRUE, header |-> FALSE, rows |-> SubSeq(rows, 1, n)]

\* What the file holds when csv writing got through n rows.
Written(rows, n) == [exists |-> TRUE, header |-> TRUE, rows |-> SubSeq(rows, 1, n)]

\* Stage 6: the report is written, or open() or a write raises IOError;
\* either way main() then prints its last line and returns.
Stage6 ==
    /\ pc = "stage6"
    /\ \/ /\ artifact' = Written(report_data, Len(report_data))
          /\ console' = console \o <<"report_saved", "finished_successfully">>
       \/ /\ \/ artifact' = NoArtifact
             \/ artifact' = Truncated
             \/ \E n \in 0..Len(report_data) : artifact' = Written(report_data, n)
          /\ console' = console \o <<"error_writing", "finished_successfully">>
    /\ pc' = "done"
    /\ exit_code' = 0
    /\ UNCHANGED <<world, vaults, relevant_groups, group_members_cache,
                   gtasks, vtasks, doneq, completed, report_data, calls,
                   responses, faults, progress, rv>>

Next ==
    \/ Stage1
    \/ Stage2
    \/ Stage3
    \/ Stage4Start
    \/ \E k \in 1..Len(gtasks) : GroupFetchReturn(k)
    \/ Stage4FanIn
    \/ Stage5Start
    \/ \E k \in 1..Len(vtasks) : VaultUsersReturn(k)
    \/ \E k \in 1..Len(vtasks) : VaultGroupsReturn(k)
    \/ Stage5FanIn
    \/ Stage6

Spec == Init /\ [][Next]_vars

\* main() under the event loop: a coroutine that can run is run, and every
\* `op` process that was started ends.
LiveSpec == Init /\ [][Next]_vars /\ WF_vars(Next)

\* One call of process_vault on its own: main() is not running.
RvInit ==
    /\ pc = "idle"
    /\ exit_code = -1
    /\ console = <<>>
    /\ world = [vaults |-> <<>>, groups |-> <<>>]
    /\ vaults = <<>>
    /\ relevant_groups = <<>>
    /\ group_members_cache = <<>>
    /\ gtasks = <<>>
    /\ vtasks = <<>>
    /\ doneq = <<>>
    /\ completed = 0
    /\ report_data = <<>>
    /\ artifact = NoArtifact
    /\ calls = EmptyBag
    /\ responses = {}
    /\ faults = 0
    /\ progress = <<>>
    /\ rv \in RvFrames

RvNext ==
    \/ RvStart
    \/ RvUsersReturn
    \/ RvDirectIter
    \/ RvGroupsReturn
    \/ RvGroupIter
    \/ RvMemberIter
    \/ RvFlatten

ResolveSpec == RvInit /\ [][RvNext]_vars

---------------------------------------------------------------------------
(* Vocabulary of the properties.                                           *)

Range(s) == {s[k] : k \in 1..Len(s)}

\* The first position of ", " in a text, 0 when there is none.
CommaAt(s) ==
    LET P == {k \in 1..(Len(s) - 1) : s[k] = 44 /\ s[k + 1] = 32}
    IN  IF P = {} THEN 0 ELSE Min(P)

\* The fields of a comma-and-space separated text, as a reader of the
\* report takes them apart.
RECURSIVE Fields(_)
Fields(s) ==
    IF s = <<>> THEN <<>>
    ELSE LET c == CommaAt(s) IN
         IF c = 0 THEN <<s>>
         ELSE <<SubSeq(s, 1, c - 1)>> \o Fields(SubSeq(s, c + 2, Len(s)))

StrictlyAscending(parts) ==
    \A k \in 1..(Len(parts) - 1) : StrLess(parts[k], parts[k + 1])

UserIds == {"u1", "u2"}

\* The rows of a sequence as a multiset.
RowBag(rows) ==
    [r \in Range(rows) |-> Cardinality({k \in 1..Len(rows) : rows[k] = r})]

\* ResolveSpec: the access paths of user u in what process_vault fetched:
\* the positions of u in the direct-user list, and the positions of the
\* grants of the group list whose cached members include u.
DirectPaths(u) ==
    {d \in 1..Len(rv.direct_users.items) :
        Get(rv.direct_users.items[d], "id", None) = u}

GroupPaths(u) ==
    {g \in 1..Len(rv.groups.items) :
        LET group_id == Get(rv.groups.items[g], "id", None) IN
        /\ ~Falsy(group_id)
        /\ \E m \in Range(CacheGet(rv.cache, group_id).items) :
               Get(m, "id", None) = u}

PathPermissions(u) ==
    UNION {Get(rv.direct_users.items[d], "permissions", {}) : d \in DirectPaths(u)}
    \cup
    UNION {Get(rv.groups.items[g], "permissions", {}) : g \in GroupPaths(u)}

\* The rows of user u in what process_vault returned.
RowsOf(u) == {k \in 1..Len(rv.local_report) : rv.vault_access[k].id = u}

---------------------------------------------------------------------------
(* C1.                                                                     *)

\* C1 as stated: whenever a user is in the direct-user list with
\* permissions P1 and is a cached member of a group granted P2, the row of
\* that user has exactly the permissions P1 union P2 and both labels.
C1_AsStated ==
    rv.pc = "returned" =>
        \A u \in UserIds : \A d \in DirectPaths(u) : \A g \in GroupPaths(u) :
            \E k \in RowsOf(u) :
                /\ Range(Fields(rv.local_report[k].Permissions)) =
                       Get(rv.direct_users.items[d], "permissions", {})
                           \cup Get(rv.groups.items[g], "permissions", {})
                /\ {S_Direct, GroupLabel(Get(rv.groups.items[g], "name", S_UnknownGroup))}
                       \subseteq Range(Fields(rv.local_report[k].AccessVia))

\* C1 as amended: whenever process_vault returns, a user who is in the
\* direct-user list with permissions P1 and is a cached member of a group
\* granted P2 has exactly one row; its permissions include P1 union P2 and
\* are exactly the union over all of the user's direct entries and group
\* grants, and its access_via contains "Direct" and "Group: <name>".
C1_DirectAndGroup ==
    rv.pc = "returned" =>
        \A u \in UserIds : \A d \in DirectPaths(u) : \A g \in GroupPaths(u) :
            /\ Cardinality(RowsOf(u)) = 1
            /\ \A k \in RowsOf(u) :
                LET permissions == Range(Fields(rv.local_report[k].Permissions))
                IN  /\ Get(rv.direct_users.items[d], "permissions", {})
                           \cup Get(rv.groups.items[g], "permissions", {})
                           \subseteq permissions
                    /\ permissions = PathPermissions(u)
                    /\ {S_Direct,
                        GroupLabel(Get(rv.groups.items[g], "name", S_UnknownGroup))}
                           \subseteq Range(Fields(rv.local_report[k].AccessVia))

\* process_vault has returned rows for a user with a direct entry and a
\* group path whose permissions differ.
C1_Witness ==
    /\ rv.pc = "returned"
    /\ \E d \in DirectPaths("u1") : \E g \in GroupPaths("u1") :
           Get(rv.direct_users.items[d], "permissions", {})
               # Get(rv.groups.items[g], "permissions", {})

---------------------------------------------------------------------------
(* C7.                                                                     *)

\* The users with at least one access path in what process_vault fetched.
PathUsers == {u \in UserIds : DirectPaths(u) # {} \/ GroupPaths(u) # {}}

\* C7: the rows process_vault returns are exactly one row per user with at
\* least one access path (a direct entry, or membership in the cache of a
\* granted group), and no other row.
C7_OneRowPerUserWithPath ==
    rv.pc = "returned" =>
        /\ Len(rv.local_report) = Len(rv.vault_access)
        /\ \A k \in 1..Len(rv.local_report) : rv.vault_access[k].id \in PathUsers
        /\ \A u \in UserIds :
               Cardinality(RowsOf(u)) = IF u \in PathUsers THEN 1 ELSE 0

\* process_vault has returned for a vault one of whose users has several
\* paths, the other none, and whose user list holds an entry without id.
C7_Witness ==
    /\ rv.pc = "returned"
    /\ PathUsers = {"u1"}
    /\ Cardinality(DirectPaths("u1")) + Cardinality(GroupPaths("u1")) >= 2
    /\ NoIdUser \in Range(rv.direct_users.items)

---------------------------------------------------------------------------
(* C9.                                                                     *)

S_ManageReadWrite ==                               \* "manage, read, write"
    S_manage \o S_CommaSpace \o S_read \o S_CommaSpace \o S_write

\* A text lists the strings of S once each, ascending, joined by ", ".
ListsSorted(text, S) ==
    LET parts == Fields(text) IN
    /\ Range(parts) = S
    /\ Len(parts) = Cardinality(S)
    /\ StrictlyAscending(parts)
    /\ Len(text) = IF S = {} THEN 0
                   ELSE 2 * (Cardinality(S) - 1)
                            + Len(Join(<<>>, parts))

\* C9: in every row, Permissions lists the accumulated permissions once
\* each in ascending order joined by ", ", and Access Via lists the
\* accumulated labels the same way; {read, write, manage} gives
\* "manage, read, write".
C9_SortedJoinedFields ==
    rv.pc = "returned" =>
        \A k \in 1..Len(rv.local_report) :
            /\ ListsSorted(rv.local_report[k].Permissions,
                           rv.vault_access[k].permissions)
            /\ ListsSorted(rv.local_report[k].AccessVia,
                           rv.vault_access[k].access_via)
            /\ rv.vault_access[k].permissions = {S_read, S_write, S_manage}
                   => rv.local_report[k].Permissions = S_ManageReadWrite

\* process_vault has returned a row with three permissions and three labels.
C9_Witness ==
    /\ rv.pc = "returned"
    /\ \E k \in 1..Len(rv.local_report) :
           /\ Cardinality(rv.vault_access[k].permissions) = 3
           /\ Cardinality(rv.vault_access[k].access_via) = 3

---------------------------------------------------------------------------
(* Vocabulary of the properties of main().                                 *)

Printed(message) == message \in Range(console)

Answered(cmd, kinds) == \E kind \in kinds : <<cmd, kind>> \in responses

PerResource(cmd) ==
    cmd[1] \in {"vault user list", "vault group list", "group user list"}

\* The run has ended: main() returned, sys.exit(1), or a traceback.
Ended == pc \in {"done", "exited", "crashed"}

\* process_vault as a whole, on lists.
Resolve(vault, users, groups, cache) ==
    IF Falsy(Get(vault, "id", None)) THEN <<>>
    ELSE Flatten(GroupLoop(DirectLoop(<<>>, users), groups, cache).vault_access,
                 Get(vault, "name", "Unknown Vault"))

\* The kind of answer the membership fetch of a group got; "ok" for a
\* group that was not fetched.
FetchKind(group_id) ==
    IF \E k \in 1..Len(gtasks) : gtasks[k].group_id = group_id
    THEN gtasks[CHOOSE k \in 1..Len(gtasks) : gtasks[k].group_id = group_id].kind
    ELSE "ok"

\* The cache that the answers recorded in the fetch tasks give, whatever
\* the order they came in.
AnswerCache ==
    [g \in {gtasks[k].group_id : k \in 1..Len(gtasks)} |->
        get_group_members(Response(FetchKind(g), GroupMembersOf(g))).value]

\* The cache when every membership fetch succeeds.
TrueCache ==
    [g \in {relevant_groups[k].id : k \in 1..Len(relevant_groups)} |->
        PyList(GroupMembersOf(g))]

\* The rows of task k that the answers recorded in it give.
AnswerRows(k) ==
    LET t == vtasks[k] IN
    IF Falsy(Get(t.vault, "id", None)) THEN <<>>
    ELSE Resolve(t.vault,
                 get_vault_users(Response(t.users_kind,
                                          VaultUsersOf(t.vault.id))).value.items,
                 get_vault_groups(Response(t.groups_kind,
                                           VaultGroupsOf(t.vault.id))).value.items,
                 AnswerCache)

RECURSIVE AnswerReport(_)
AnswerReport(n) ==
    IF n = 0 THEN <<>> ELSE AnswerReport(n - 1) \o AnswerRows(n)

---------------------------------------------------------------------------
(* C2.                                                                     *)

CacheBuilt ==
    \A k \in 1..Len(gtasks) :
        /\ gtasks[k].state = "awaited"
        /\ gtasks[k].group_id \in DOMAIN group_members_cache
        /\ group_members_cache[gtasks[k].group_id] = gtasks[k].members

\* C2: once a process_vault task exists, every dispatched membership fetch
\* has completed and is in the cache, and no step changes the cache.
C2_CacheBuiltBeforeRead ==
    /\ [](vtasks # <<>> => CacheBuilt)
    /\ [][vtasks # <<>> => group_members_cache' = group_members_cache]_vars

\* A vault resolution has read a cache of two groups and returned rows
\* derived from it, while another resolution is still running.
C2_Witness ==
    /\ pc = "stage5"
    /\ Len(gtasks) = 2
    /\ \E k \in 1..Len(vtasks) :
           /\ vtasks[k].state = "returned"
           /\ \E r \in Range(vtasks[k].result) : r.AccessVia # S_Direct
    /\ \E k \in 1..Len(vtasks) : vtasks[k].state \in {"users", "groups"}

---------------------------------------------------------------------------
(* C3.                                                                     *)

ErrorSeen == \E r \in responses : PerResource(r[1]) /\ r[2] = "error"
NoScalarSeen == \A r \in responses : r[2] # "scalar"

Resolved(k) == vtasks[k].state \in {"returned", "awaited"}

\* Task k used a call that did not succeed.
DependsOnFailure(k) ==
    \/ vtasks[k].users_kind # "ok"
    \/ vtasks[k].groups_kind # "ok"
    \/ \E grant \in Range(VaultGroupsOf(vtasks[k].vault.id)) :
           FetchKind(Get(grant, "id", None)) # "ok"

\* main() has a step to take, or waits for a task that is still running.
CanGoOn ==
    \/ pc \in {"stage1", "await_vaults", "await_groups", "stage4_start",
               "stage5_start", "stage6"}
    \/ /\ pc = "stage4"
       /\ doneq # <<>> \/ \E k \in 1..Len(gtasks) : gtasks[k].state = "pending"
    \/ /\ pc = "stage5"
       /\ doneq # <<>>
              \/ \E k \in 1..Len(vtasks) : vtasks[k].state \in {"users", "groups"}

\* C3: a per-resource call that the authority answers with an error yields
\* an empty list; in a run whose other answers are lists or errors it
\* cancels no task and does not end the run, which goes on to the report
\* and exit status 0; and the rows of every vault that used no failed call
\* are those of a run in which every call succeeds.
C3_ErrorDegrades ==
    /\ \A k \in 1..Len(gtasks) :
           gtasks[k].state # "pending" /\ gtasks[k].kind = "error"
               => gtasks[k].members = PyList(<<>>)
    /\ \A k \in 1..Len(vtasks) :
           /\ vtasks[k].state = "groups" /\ vtasks[k].users_kind = "error"
                  => vtasks[k].vault_access = <<>>
           /\ Resolved(k) /\ vtasks[k].users_kind = "error"
                  => \A r \in Range(vtasks[k].result) :
                         S_Direct \notin Range(Fields(r.AccessVia))
           /\ Resolved(k) /\ vtasks[k].groups_kind = "error"
                  => \A r \in Range(vtasks[k].result) : r.AccessVia = S_Direct
    /\ ErrorSeen /\ NoScalarSeen =>
           /\ pc \notin {"exited", "crashed"}
           /\ exit_code # 1
           /\ \A k \in 1..Len(vtasks) : vtasks[k].state \notin {"cancelled", "raised"}
           /\ \A k \in 1..Len(gtasks) : gtasks[k].state # "cancelled"
           /\ pc # "done" => CanGoOn
           /\ pc = "done" =>
                  /\ exit_code = 0
                  /\ \A k \in 1..Len(vtasks) : vtasks[k].state = "awaited"
                  /\ Printed("report_saved") =>
                         artifact = [exists |-> TRUE, header |-> TRUE,
                                     rows |-> report_data]
    /\ \A k \in 1..Len(vtasks) :
           Resolved(k) /\ ~Falsy(Get(vtasks[k].vault, "id", None))
                       /\ ~DependsOnFailure(k)
               => vtasks[k].result =
                      Resolve(vtasks[k].vault, VaultUsersOf(vtasks[k].vault.id),
                              VaultGroupsOf(vtasks[k].vault.id), TrueCache)

\* A run has ended with the report saved although one group's membership
\* fetch got an error, and a vault that does not use that group has its rows.
C3_Witness ==
    /\ pc = "done"
    /\ Printed("report_saved")
    /\ Answered(CmdGroupMembers("g2"), {"error"})
    /\ \E k \in 1..Len(vtasks) :
           /\ ~Falsy(Get(vtasks[k].vault, "id", None))
           /\ ~DependsOnFailure(k)
           /\ Len(vtasks[k].result) = 2
    /\ \E k \in 1..Len(vtasks) :
           ~Falsy(Get(vtasks[k].vault, "id", None)) /\ DependsOnFailure(k)

---------------------------------------------------------------------------
(* C4.                                                                     *)

\* C4 as stated: a per-resource answer that is unparsable, or parsable but
\* no list, is handled as an error is: no exception leaves process_vault
\* and the run is not ended by it.
C4_MalformedDegrades ==
    (\E r \in responses : PerResource(r[1]) /\ r[2] \in {"unparsable", "scalar"})
        => /\ \A k \in 1..Len(vtasks) : vtasks[k].state # "raised"
           /\ pc # "crashed"
           /\ exit_code # 1

---------------------------------------------------------------------------
(* C5.                                                                     *)

Failure == {"error", "unparsable"}

NothingDone ==
    /\ pc = "exited"
    /\ exit_code = 1
    /\ gtasks = <<>>
    /\ vtasks = <<>>
    /\ report_data = <<>>
    /\ artifact = NoArtifact

\* C5: when the vault listing or the group listing fails, the run has
\* exited with status 1, the failed command is the last one run, no vault
\* is resolved and no report is written.
C5_UniverseFailureIsFatal ==
    /\ Answered(CmdVaultList, Failure) =>
           /\ NothingDone
           /\ calls = SetToBag({CmdWhoami, CmdVaultList})
           /\ Printed("error_fetching_vaults")
    /\ Answered(CmdGroupList, Failure) =>
           /\ NothingDone
           /\ calls = SetToBag({CmdWhoami, CmdVaultList, CmdGroupList})
           /\ Printed("error_fetching_groups")

\* The group listing has failed after two vaults were listed.
C5_Witness ==
    /\ Answered(CmdGroupList, Failure)
    /\ Len(vaults) = 2
    /\ pc = "exited"

---------------------------------------------------------------------------
(* C6.                                                                     *)

\* C6 as stated: a run ends with exit status 0 and the message of success
\* only after the report artifact has been written; a failed write is
\* reported and leaves report_data as it was.
C6_SuccessOnlyAfterWrite ==
    /\ pc = "done" /\ exit_code = 0 =>
           artifact = [exists |-> TRUE, header |-> TRUE, rows |-> report_data]
    /\ Printed("error_writing") => ~Printed("finished_successfully")

---------------------------------------------------------------------------
(* C8.                                                                     *)

\* C8: when main() reaches the report, report_data holds the rows that the
\* answers of the run give, as a multiset, whatever the order in which the
\* membership fetches and the vault resolutions completed.
C8_OrderIndependent ==
    pc \in {"stage6", "done"} =>
        RowBag(report_data) = RowBag(AnswerReport(Len(vtasks)))

\* A run has reached the report with two groups cached and the second
\* vault's rows ahead of the first vault's.
C8_Witness ==
    /\ pc = "stage6"
    /\ Len(gtasks) = 2
    /\ Len(vtasks) = 2
    /\ Len(vtasks[1].result) > 0
    /\ Len(vtasks[2].result) > 0
    /\ report_data = vtasks[2].result \o vtasks[1].result

---------------------------------------------------------------------------
(* C10.                                                                    *)

ZeroVaults == Answered(CmdVaultList, {"ok"}) /\ vaults = <<>>

PerVaultCalls ==
    {cmd \in DOMAIN calls : cmd[1] \in {"vault user list", "vault group list"}}

HeaderOnly == [exists |-> TRUE, header |-> TRUE, rows |-> <<>>]

\* C10 as stated: a run whose vault listing succeeds with zero vaults
\* issues no per-vault call, writes a report of the header row only and
\* ends with exit status 0.
C10_AsStated ==
    ZeroVaults /\ Ended =>
        /\ PerVaultCalls = {}
        /\ artifact = HeaderOnly
        /\ exit_code = 0

\* C10 as amended: a run whose vault listing succeeds with zero vaults
\* issues no per-vault call and resolves nothing; it ends otherwise than by
\* main() returning only when the group listing got no list; when main()
\* returns, the exit status is 0 and the report, if the write succeeded, is
\* the header row only.
C10_ZeroVaults ==
    ZeroVaults =>
        /\ PerVaultCalls = {}
        /\ vtasks = <<>>
        /\ report_data = <<>>
        /\ pc \in {"exited", "crashed"} =>
               Answered(CmdGroupList, Kinds \ {"ok"})
        /\ pc = "done" =>
               /\ exit_code = 0
               /\ Printed("report_saved") => artifact = HeaderOnly
               /\ artifact.rows = <<>>

\* A run with zero vaults and two groups has saved its report.
C10_Witness ==
    /\ ZeroVaults
    /\ pc = "done"
    /\ Printed("report_saved")
    /\ Len(gtasks) = 2

---------------------------------------------------------------------------
(* C11.                                                                    *)

\* The ids of the grants of a group list.
GrantIds(groups) ==
    {Get(groups[g], "id", None) : g \in 1..Len(groups)} \ {None}

\* The cache with every id of ids that it lacks mapped to an empty list.
Padded(cache, ids) ==
    [g \in DOMAIN cache \cup ids |->
        IF g \in DOMAIN cache THEN cache[g] ELSE PyList(<<>>)]

\* ResolveSpec: the grant that the group loop is at has an id that is no
\* key of the cache.
AtMissingKey ==
    /\ rv.pc = "member_loop"
    /\ Get(rv.groups.items[rv.i], "id", None) \notin DOMAIN rv.cache

\* How the call ended when the group loop ran, whole, on a cache.
GroupLoopOutcome(cache) ==
    LET loop == GroupLoop(DirectLoop(<<>>, rv.direct_users.items),
                          rv.groups.items, cache)
    IN  IF loop.raised THEN [pc |-> "raised", local_report |-> <<>>]
        ELSE [pc |-> "returned",
              local_report |-> Flatten(loop.vault_access,
                                       Get(rv.vault, "name", "Unknown Vault"))]

\* C11: a grant whose group id is no key of the cache is handled as a grant
\* of a group cached with no member: the lookup gives an empty list, the
\* step after it raises nothing and leaves the accumulator as it was, and a
\* call that got as far as the group loop ends as it ends on the cache that
\* maps every missing id to an empty list.
C11_MissingKeyIsEmpty ==
    /\ [](AtMissingKey => rv.group_members = PyList(<<>>))
    /\ [][AtMissingKey =>
              /\ rv'.pc = "group_loop"
              /\ rv'.i = rv.i + 1
              /\ rv'.vault_access = rv.vault_access]_vars
    /\ [](/\ rv.pc \in {"returned", "raised"}
          /\ ~Falsy(Get(rv.vault, "id", None))
          /\ rv.direct_users.iterable
          /\ rv.groups.iterable
          => LET outcome ==
                     GroupLoopOutcome(Padded(rv.cache, GrantIds(rv.groups.items)))
             IN  /\ rv.pc = outcome.pc
                 /\ rv.local_report = outcome.local_report)

\* process_vault has returned rows for a vault with a grant to a group that
\* is no key of the cache and a grant to a cached group with a member.
C11_Witness ==
    /\ rv.pc = "returned"
    /\ GrantIds(rv.groups.items) \ DOMAIN rv.cache # {}
    /\ \E r \in Range(rv.local_report) : r.AccessVia # S_Direct

---------------------------------------------------------------------------
(* C12.                                                                    *)

\* The vault tasks whose result main() has taken.
Awaited == {k \in 1..Len(vtasks) : vtasks[k].state = "awaited"}

\* The results of the tasks order[1], order[2], ... one after the other.
RECURSIVE Concatenated(_)
Concatenated(order) ==
    IF order = <<>> THEN <<>>
    ELSE vtasks[Head(order)].result \o Concatenated(Tail(order))

\* The orders in which the tasks of a set can complete.
Orders(K) ==
    {order \in [1..Cardinality(K) -> K] :
        \A a, b \in 1..Cardinality(K) : order[a] = order[b] => a = b}

RECURSIVE SumOfLen(_)
SumOfLen(K) ==
    IF K = {} THEN 0
    ELSE LET k == CHOOSE k \in K : TRUE
         IN  Len(vtasks[k].result) + SumOfLen(K \ {k})

\* What the authority's answers to task k were, as lists.
UsersAnswer(k) ==
    get_vault_users(Response(vtasks[k].users_kind,
                             VaultUsersOf(vtasks[k].vault.id))).value.items

GroupsAnswer(k) ==
    get_vault_groups(Response(vtasks[k].groups_kind,
                              VaultGroupsOf(vtasks[k].vault.id))).value.items

\* User u has an access path on the vault of task k: a direct entry, or
\* membership, by the cache, of a group the vault grants.
HasPathOn(u, k) ==
    /\ ~Falsy(Get(vtasks[k].vault, "id", None))
    /\ \/ \E user \in Range(UsersAnswer(k)) : Get(user, "id", None) = u
       \/ \E grant \in Range(GroupsAnswer(k)) :
              /\ ~Falsy(Get(grant, "id", None))
              /\ \E member \in
                     Range(CacheGet(group_members_cache, grant.id).items) :
                         Get(member, "id", None) = u

\* The name every entry of the authority gives to a user.
NameOf(u) == IF u = "u1" THEN "Alice" ELSE "Bob"

RowsNamed(name) == {i \in 1..Len(report_data) : report_data[i].UserName = name}

\* C12: report_data is at every moment the results of the vault tasks
\* awaited so far, one after the other in the order they were awaited, each
\* fan-in step appending one task's rows unchanged; when main() reaches the
\* report every task has been awaited, the length of report_data is the sum
\* of the per-vault row counts, and a user with access paths on k vaults has
\* k rows.
C12_ReportIsConcatenation ==
    /\ [](\E order \in Orders(Awaited) : report_data = Concatenated(order))
    /\ [][report_data' # report_data =>
              \E k \in 1..Len(vtasks) :
                  /\ vtasks[k].state = "returned"
                  /\ vtasks'[k].state = "awaited"
                  /\ report_data' = report_data \o vtasks[k].result]_vars
    /\ [](pc \in {"stage6", "done"} =>
              /\ Awaited = 1..Len(vtasks)
              /\ Len(report_data) = SumOfLen(1..Len(vtasks))
              /\ \A u \in UserIds :
                     Cardinality(RowsNamed(NameOf(u))) =
                         Cardinality({k \in 1..Len(vtasks) : HasPathOn(u, k)}))

\* A run has reached the report with two vaults resolved, on both of which
\* both users have access: four rows, two of each user.
C12_Witness ==
    /\ pc = "stage6"
    /\ Len(vtasks) = 2
    /\ Len(report_data) = 4
    /\ Cardinality(RowsNamed("Alice")) = 2
    /\ Cardinality(RowsNamed("Bob")) = 2

---------------------------------------------------------------------------
(* C13.                                                                    *)

\* The progress lines of stage 5, in the order they were printed.
Auditing == SelectSeq(progress, LAMBDA line : line.prefix = "Auditing")

\* The count K of the last line "K of N vaults"; 0 before the first.
Reported == IF Auditing = <<>> THEN 0 ELSE Auditing[Len(Auditing)].current

\* C13: the lines of stage 5 report 1, 2, ... of N, N the number of vaults
\* listed: the count goes up by one with each fan-in completion and only
\* then, never exceeds N, is at every moment the number of vault results
\* appended to report_data, and is N exactly when every vault of a run with
\* vaults has been resolved and awaited - whatever the order of completion.
C13_ProgressCounts ==
    /\ [](/\ \A i \in 1..Len(Auditing) :
                 /\ Auditing[i].current = i
                 /\ Auditing[i].total = Len(vaults)
                 /\ Auditing[i].current <= Auditing[i].total
          /\ Reported = Cardinality(Awaited)
          /\ Reported <= Len(vaults)
          /\ pc \in {"stage5", "stage6", "done"} /\ vtasks # <<>>
                 => completed = Reported
          /\ (vtasks # <<>> /\ Awaited = 1..Len(vtasks))
                 <=> (Auditing # <<>> /\ Reported = Len(vaults)))
    /\ [][/\ Awaited' # Awaited =>
                 /\ Cardinality(Awaited') = Cardinality(Awaited) + 1
                 /\ Len(Auditing') = Len(Auditing) + 1
          /\ Auditing' # Auditing => Awaited' # Awaited
          /\ Len(Auditing') >= Len(Auditing)]_vars

\* Two vaults have been resolved, the second before the first, and the
\* lines 1/2 and 2/2 were printed.
C13_Witness ==
    /\ Len(Auditing) = 2
    /\ Auditing[2].current = 2
    /\ Auditing[2].total = 2
    /\ report_data = vtasks[2].result \o vtasks[1].result
    /\ vtasks[2].result # <<>>
    /\ vtasks[1].result # <<>>
    /\ pc = "done"

---------------------------------------------------------------------------
(* C14.                                                                    *)

\* ResolveSpec: the access paths of user u that process_vault has gone
\* through so far: the direct entries before position i of the direct loop,
\* the grants before position i of the group loop, and the grant at i once
\* the member loop has passed an entry of u.
ObservedDirect(u) ==
    IF rv.pc = "direct_loop" THEN {d \in DirectPaths(u) : d < rv.i}
    ELSE DirectPaths(u)

ObservedGroups(u) ==
    IF rv.pc \in {"flatten", "returned"} THEN GroupPaths(u)
    ELSE IF rv.pc \in {"group_loop", "member_loop", "raised"}
    THEN {g \in GroupPaths(u) :
             \/ g < rv.i
             \/ /\ g = rv.i
                /\ rv.pc = "member_loop"
                /\ \E m \in 1..(rv.j - 1) :
                       Get(rv.group_members.items[m], "id", None) = u}
    ELSE {}

ObservedPermissions(u) ==
    UNION {Get(rv.direct_users.items[d], "permissions", {}) :
               d \in ObservedDirect(u)}
    \cup
    UNION {Get(rv.groups.items[g], "permissions", {}) : g \in ObservedGroups(u)}

NoDuplicate(parts) ==
    \A a, b \in 1..Len(parts) : parts[a] = parts[b] => a = b

\* C14: at every step of process_vault the accumulator holds one record
\* for each user with an access path gone through so far and for no other
\* user, and the record's permissions are the union of the permissions of
\* those paths; no step removes a record or a permission of a record; and
\* in a row no permission is listed twice, however many paths grant it.
C14_PermissionsAreUnionSoFar ==
    /\ [](/\ \A k \in 1..Len(rv.vault_access) :
                 rv.vault_access[k].permissions =
                     ObservedPermissions(rv.vault_access[k].id)
          /\ \A u \in UserIds :
                 HasKey(rv.vault_access, u)
                     <=> ObservedDirect(u) # {} \/ ObservedGroups(u) # {}
          /\ \A k \in 1..Len(rv.local_report) :
                 /\ NoDuplicate(Fields(rv.local_report[k].Permissions))
                 /\ Range(Fields(rv.local_report[k].Permissions)) =
                        rv.vault_access[k].permissions)
    /\ [][/\ Len(rv'.vault_access) >= Len(rv.vault_access)
          /\ \A k \in 1..Len(rv.vault_access) :
                 /\ rv'.vault_access[k].id = rv.vault_access[k].id
                 /\ rv.vault_access[k].permissions
                        \subseteq rv'.vault_access[k].permissions]_vars

\* process_vault has returned the row of a user to whom two groups grant
\* "read", one of them with more; the row lists three permissions.
C14_Witness ==
    /\ rv.pc = "returned"
    /\ \E g, h \in GroupPaths("u1") :
           /\ rv.groups.items[g].id # rv.groups.items[h].id
           /\ S_read \in rv.groups.items[g].permissions
           /\ S_read \in rv.groups.items[h].permissions
    /\ \E k \in RowsOf("u1") :
           Len(Fields(rv.local_report[k].Permissions)) = 3

---------------------------------------------------------------------------
(* C15.                                                                    *)

\* The distinct groups through which user u has access.
GroupsOf(u) == {rv.groups.items[g].id : g \in GroupPaths(u)}

\* The number of distinct access paths of user u: the direct grant, if any,
\* and each group.
DistinctPaths(u) ==
    (IF DirectPaths(u) # {} THEN 1 ELSE 0) + Cardinality(GroupsOf(u))

\* C15 as stated: in every record that process_vault returns a row for,
\* access_via holds "Direct" exactly when the user has a direct grant, and
\* the number of its labels is the number of distinct access paths of the
\* user, however often a path was observed.
C15_OneLabelPerPath ==
    rv.pc = "returned" =>
        \A k \in 1..Len(rv.vault_access) :
            LET u == rv.vault_access[k].id IN
            /\ S_Direct \in rv.vault_access[k].access_via
                   <=> DirectPaths(u) # {}
            /\ Cardinality(rv.vault_access[k].access_via) = DistinctPaths(u)
            /\ Len(Fields(rv.local_report[k].AccessVia)) = DistinctPaths(u)

---------------------------------------------------------------------------
(* C16.                                                                    *)

\* The ids of the groups that passed the identifier filter.
RelevantIds == {relevant_groups[k].id : k \in 1..Len(relevant_groups)}

\* How many times `op group user list <group_id>` has been run.
FetchesOf(bag, group_id) ==
    IF CmdGroupMembers(group_id) \in DOMAIN bag
    THEN bag[CmdGroupMembers(group_id)] ELSE 0

\* The ids for which `op group user list` has been run.
FetchedIds(bag) == {cmd[2] : cmd \in {c \in DOMAIN bag : c[1] = "group user list"}}

RECURSIVE MembershipFetches(_, _)
MembershipFetches(bag, ids) ==
    IF ids = {} THEN 0
    ELSE LET g == CHOOSE g \in ids : TRUE
         IN  FetchesOf(bag, g) + MembershipFetches(bag, ids \ {g})

Dispatched == pc \in {"stage4", "stage5_start", "stage5", "stage6", "done"}

\* C16: membership fetches are run for relevant groups only and at most
\* once each, and once stage 4 has dispatched them exactly once for every
\* relevant group, as many as there are relevant groups whatever the number
\* of vaults; every write to the cache adds a key that it did not hold; and
\* from the start of stage 5 on no membership fetch is run.
C16_OneFetchOneWritePerGroup ==
    /\ [](/\ FetchedIds(calls) \subseteq RelevantIds
          /\ \A g \in FetchedIds(calls) : FetchesOf(calls, g) = 1
          /\ Dispatched =>
                 /\ FetchedIds(calls) = RelevantIds
                 /\ MembershipFetches(calls, RelevantIds) = Len(relevant_groups)
                 /\ Len(gtasks) = Len(relevant_groups))
    /\ [][pc = "stage4" /\ completed' # completed =>
              \E k \in 1..Len(gtasks) :
                  /\ gtasks[k].state = "done"
                  /\ gtasks'[k].state = "awaited"
                  /\ gtasks[k].group_id \notin DOMAIN group_members_cache
                  /\ DOMAIN group_members_cache' =
                         DOMAIN group_members_cache \cup {gtasks[k].group_id}
                  /\ \A g \in DOMAIN group_members_cache :
                         group_members_cache'[g] = group_members_cache[g]]_vars
    /\ [][/\ group_members_cache' # group_members_cache
              => pc = "stage4" /\ completed' # completed
          /\ pc \in {"stage5_start", "stage5", "stage6", "done", "crashed"} =>
                 \A g \in FetchedIds(calls') \cup FetchedIds(calls) :
                     FetchesOf(calls', g) = FetchesOf(calls, g)]_vars

\* A run has resolved two vaults, each with rows of group members, from a
\* cache of two groups, with two membership fetches in all.
C16_Witness ==
    /\ pc = "stage6"
    /\ Len(vtasks) = 2
    /\ \A k \in 1..Len(vtasks) :
           \E r \in Range(vtasks[k].result) : r.AccessVia # S_Direct
    /\ MembershipFetches(calls, RelevantIds) = 2
    /\ DOMAIN group_members_cache = {"g1", "g2"}

---------------------------------------------------------------------------
(* C17.                                                                    *)

\* The ids of the groups of the universe that have a usable identifier.
UsableIds == {Get(g, "id", None) : g \in Range(world.groups)} \ {None}

\* Stage 4 is over.
CacheBuildFinished ==
    pc \in {"stage5_start", "stage5", "stage6", "done"} \/ vtasks # <<>>

\* The fetch of task k got an error or unparsable text, or a list of no
\* member.
NoMembersFetched(k) ==
    \/ gtasks[k].kind \in Failure
    \/ gtasks[k].kind = "ok" /\ GroupMembersOf(gtasks[k].group_id) = <<>>

\* C17: the keys of the cache and the groups fetched are at every moment
\* among the ids of the listed groups that have a usable identifier, and
\* when the cache build has finished the keys are exactly those ids; a
\* group whose fetch failed or gave no member is then a key with an empty
\* list.
C17_KeysAreUsableIds ==
    /\ DOMAIN group_members_cache \subseteq UsableIds
    /\ FetchedIds(calls) \subseteq UsableIds
    /\ \A k \in 1..Len(gtasks) : ~Falsy(gtasks[k].group_id)
    /\ CacheBuildFinished =>
           /\ DOMAIN group_members_cache = UsableIds
           /\ FetchedIds(calls) = UsableIds
           /\ \A k \in 1..Len(gtasks) :
                  NoMembersFetched(k) =>
                      /\ gtasks[k].group_id \in DOMAIN group_members_cache
                      /\ group_members_cache[gtasks[k].group_id] = PyList(<<>>)

\* The cache of a universe with a group without identifier and a group
\* whose fetch failed has been built: one key, with an empty list.
C17_Witness ==
    /\ pc = "stage5_start"
    /\ NoIdGroup \in Range(world.groups)
    /\ \E k \in 1..Len(gtasks) : gtasks[k].kind \in Failure
    /\ DOMAIN group_members_cache = UsableIds
    /\ \E g \in UsableIds : group_members_cache[g] = PyList(<<>>)

---------------------------------------------------------------------------
(* C18.                                                                    *)

\* A command that fetches data of the authority: any but `op whoami`.
DataFetches == {cmd \in DOMAIN calls : cmd # CmdWhoami}

PrerequisiteFailed == Printed("op_not_installed") \/ Printed("not_signed_in")

\* C18: a data fetch is run only when the prerequisite check has passed;
\* the group listing is run only when the vault listing has returned its
\* list; a membership fetch is run only when the group listing has returned
\* its list; a per-vault call is run only when every membership fetch has
\* been awaited; the report file is touched only when every vault
\* resolution has been awaited; and a failed prerequisite check has ended
\* the run with exit status 1 and no data fetch.
C18_StagesInOrder ==
    /\ DataFetches # {} => pc # "stage1" /\ ~PrerequisiteFailed
    /\ CmdGroupList \in DOMAIN calls =>
           /\ Answered(CmdVaultList, {"ok"})
           /\ Len(vaults) = Len(world.vaults)
    /\ FetchedIds(calls) # {} =>
           /\ Answered(CmdGroupList, {"ok"})
           /\ relevant_groups = RelevantGroups(world.groups)
    /\ PerVaultCalls # {} \/ vtasks # <<>> =>
           \A k \in 1..Len(gtasks) : gtasks[k].state = "awaited"
    /\ artifact # NoArtifact \/ pc \in {"stage6", "done"} =>
           /\ Len(vtasks) = Len(vaults)
           /\ \A k \in 1..Len(vtasks) : vtasks[k].state = "awaited"
    /\ PrerequisiteFailed =>
           /\ pc = "exited"
           /\ exit_code = 1
           /\ DataFetches = {}
           /\ responses = {}
           /\ artifact = NoArtifact

\* A run has gone through all stages: two vaults listed, two groups
\* fetched, both vaults resolved, the report saved with rows.
C18_Witness ==
    /\ pc = "done"
    /\ Printed("report_saved")
    /\ Len(gtasks) = 2
    /\ Len(vtasks) = 2
    /\ Len(artifact.rows) >= 2

---------------------------------------------------------------------------
(* C19.                                                                    *)

WithoutId(k) == Falsy(Get(vtasks[k].vault, "id", None))

\* The ids of the listed vaults that have one.
VaultIds == {Get(v, "id", None) : v \in Range(vaults)} \ {None}

\* The rows that the answers of the run give for the vaults with an id
\* among the first n tasks.
RECURSIVE RowsOfVaultsWithId(_)
RowsOfVaultsWithId(n) ==
    IF n = 0 THEN <<>>
    ELSE RowsOfVaultsWithId(n - 1) \o
         (IF WithoutId(n) THEN <<>>
          ELSE Resolve(vtasks[n].vault, UsersAnswer(n), GroupsAnswer(n),
                       group_members_cache))

\* C19: the task of a vault without id has returned no row from the moment
\* it exists, whatever the cache holds; it never raises, no answer is ever
\* recorded for it and every per-vault call is for the id of a listed
\* vault; it is awaited and counted like any task, so that the count
\* reaches the number of listed vaults; and the report holds the rows of
\* the vaults with an id, as the answers give them.
C19_VaultWithoutId ==
    /\ \A k \in 1..Len(vtasks) :
           WithoutId(k) =>
               /\ vtasks[k].state \in {"returned", "awaited"}
               /\ vtasks[k].result = <<>>
               /\ vtasks[k].vault_access = <<>>
               /\ vtasks[k].users_kind = "ok" /\ vtasks[k].groups_kind = "ok"
    /\ {cmd[2] : cmd \in PerVaultCalls} \subseteq VaultIds
    /\ \A r \in responses :
           r[1][1] \in {"vault user list", "vault group list"}
               => r[1][2] \in VaultIds
    /\ vtasks # <<>> => Len(vtasks) = Len(vaults)
    /\ pc \in {"stage6", "done"} /\ vtasks # <<>> =>
           /\ completed = Len(vaults)
           /\ Reported = Len(vaults)
           /\ \A k \in 1..Len(vtasks) : vtasks[k].state = "awaited"
           /\ RowBag(report_data) = RowBag(RowsOfVaultsWithId(Len(vtasks)))

\* A run has reached the report after resolving a vault without id and a
\* vault with rows, while a group is cached with a value that cannot be
\* iterated.
C19_Witness ==
    /\ pc = "stage6"
    /\ Len(vtasks) = 2
    /\ \E k \in 1..2 : WithoutId(k)
    /\ report_data # <<>>
    /\ \E g \in DOMAIN group_members_cache : ~group_members_cache[g].iterable

---------------------------------------------------------------------------
(* C20.                                                                    *)

\* The tasks that have finished and that the loop has not yet taken.
FinishedTasks(tasks) ==
    {k \in 1..Len(tasks) : tasks[k].state \in {"done", "returned", "raised"}}

RunningTasks(tasks) ==
    {k \in 1..Len(tasks) : tasks[k].state \in {"pending", "users", "groups"}}

AwaitedTasks(tasks) == {k \in 1..Len(tasks) : tasks[k].state = "awaited"}

\* A fan-in loop over tasks is under way: what as_completed has still to
\* yield are the finished tasks, once each; the loop has taken one
\* completion per awaited task; and a task is left for it to wait for.
FanInSound(tasks) ==
    /\ Range(doneq) = FinishedTasks(tasks)
    /\ NoDuplicate(doneq)
    /\ completed = Cardinality(AwaitedTasks(tasks))
    /\ completed < Len(tasks)
    /\ Cardinality(FinishedTasks(tasks)) + Cardinality(RunningTasks(tasks))
           = Len(tasks) - completed

\* C20: when every call that was started returns, every run of main()
\* ends - by sys.exit, by an exception that nothing catches, or after the
\* report stage - whatever the order of the completions; and as long as a
\* fan-in loop runs it has consumed one completion for each task it awaited
\* and still has a dispatched task to wait for or to take, so that it never
\* waits for a completion that will not come; when it is over every
\* dispatched task has been awaited once.
C20_RunsEnd ==
    /\ <>Ended
    /\ [](/\ pc = "stage4" => FanInSound(gtasks)
          /\ pc = "stage5" => FanInSound(vtasks)
          /\ pc \in {"stage5_start", "stage6", "done"} =>
                 /\ doneq = <<>>
                 /\ AwaitedTasks(gtasks) = 1..Len(gtasks)
          /\ pc \in {"stage6", "done"} =>
                 /\ AwaitedTasks(vtasks) = 1..Len(vtasks)
                 /\ vtasks # <<>> => completed = Len(vtasks))
    /\ [][completed' # completed /\ completed' # 0 =>
              /\ completed' = completed + 1
              /\ doneq # <<>>
              /\ doneq' = Tail(doneq)]_vars

\* A run has ended after the report stage with two membership fetches and
\* two vault resolutions, the second vault of which was awaited first, and
\* as many failed calls as the bound allows.
C20_Witness ==
    /\ pc = "done"
    /\ Len(gtasks) = 2
    /\ Len(vtasks) = 2
    /\ faults = MaxFaults
    /\ Len(vtasks[2].result) > 0
    /\ SubSeq(report_data, 1, Len(vtasks[2].result)) = vtasks[2].result

===========================================================================
